---- MODULE Spec2Model ----
(***************************************************************************)
(* Loyalty ledger and membership renewal engine of backend-TA-PPB.         *)
(*                                                                         *)
(* The repository holds two versions of routes/members.ts (part_001 and    *)
(* src/routes/members.ts) and two of services/cashbackService.ts (part_004 *)
(* and src/services/cashbackService.ts).  A deployment runs one of each:   *)
(* membersRoute and cashbackService say which, and never change.           *)
(*                                                                         *)
(* Time.  An instant is a whole number of hours since 2025-01-01T00:00Z;   *)
(* a calendar date is a whole number of days since 2025-01-01.  A luxon    *)
(* DateTime in zone Asia/Jakarta and a JS Date are both carried as their   *)
(* instant; what differs is the zone each conversion to a date uses.       *)
(***************************************************************************)
EXTENDS Integers, Sequences, FiniteSets, TLC

VARIABLES
    membersRoute,        \* "part_001" or "members.ts": the members router deployed
    cashbackService,     \* "part_004" or "cashbackService.ts": the service deployed
    now,                 \* the wall clock (an instant)
    ticks,               \* how often the clock has advanced (bounds the run)
    members,             \* table members: id -> row
    membership_payments, \* table membership_payments: a set of rows
    transactions,        \* table transactions: rows in insertion order
    cashback_ledger,     \* table cashback_ledger: rows in insertion order
    resp,                \* the response of the last request handled
    faults,              \* how many store calls have failed so far (bounds the run)
    snap,                \* ghost: the member's stored state when the last pay began
    req,                 \* ghost: the body of the last POST /transactions
    calls,               \* requests in flight: each one's position and locals
    probe                \* the last evaluation of a pure rule: its inputs and result

vars == <<membersRoute, cashbackService, now, ticks, members, membership_payments,
          transactions, cashback_ledger, resp, faults, snap, req, calls, probe>>

----------------------------------------------------------------------------
(* Bounds of the model *)

MaxTicks == 1
MaxPayments == 2
MaxTrx == 2
MaxFaults == 1
MaxCashSteps == 10
MaxProbeDay == 3
MaxCalls == 3

(* null of `string | null`; every date and instant of the model is >= 0 *)
Null == -1

----------------------------------------------------------------------------
(* Clock / calendar: utils/date.ts and the JS Date arithmetic of members.ts *)

JKT_OFFSET == 7
HoursPerDay == 24
MEMBERSHIP_DAYS == 30

Min(a, b) == IF a < b THEN a ELSE b
Max(a, b) == IF a > b THEN a ELSE b

(* nowJkt(): DateTime.now().setZone(JAKARTA_TZ), or the instant of transactedAt *)
nowJkt(transactedAt) == IF transactedAt = Null THEN now ELSE transactedAt

(* dt.toISODate() of a DateTime zoned Asia/Jakarta: its civil date there *)
toISODate(dt) == (dt + JKT_OFFSET) \div HoursPerDay

toDayKey(dt) == toISODate(dt)

(* DateTime.fromISO("YYYY-MM-DD", {zone: JAKARTA_TZ}): midnight in Jakarta *)
fromISODate(dateStr) == dateStr * HoursPerDay - JKT_OFFSET

(* dt.plus({days}): Jakarta keeps no daylight saving time, a day is 24 hours *)
plusDays(dt, days) == dt + days * HoursPerDay

startOfDay(dt) == fromISODate(toISODate(dt))

(* dt.endOf("day"): the last instant of dt's civil day in Jakarta *)
endOfDay(dt) == fromISODate(toISODate(dt)) + (HoursPerDay - 1)

(* The civil calendar.  2025, 2026 and 2027 are not leap years. *)
DaysInYear == 365

DaysInMonth(month) ==
    CASE month = 2 -> 28
      [] month \in {4, 6, 9, 11} -> 30
      [] OTHER -> 31

RECURSIVE DaysBeforeMonth(_)
DaysBeforeMonth(month) ==
    IF month = 1 THEN 0 ELSE DaysBeforeMonth(month - 1) + DaysInMonth(month - 1)

(* date -> [year, month, day], year counted from 2025 *)
YMD(date) ==
    LET y == date \div DaysInYear
        doy == date % DaysInYear
        m == CHOOSE k \in 1..12 :
                 DaysBeforeMonth(k) <= doy /\ doy < DaysBeforeMonth(k) + DaysInMonth(k)
    IN  [year |-> y, month |-> m, day |-> doy - DaysBeforeMonth(m) + 1]

DateOf(ymd) == ymd.year * DaysInYear + DaysBeforeMonth(ymd.month) + ymd.day - 1

(* luxon plus({months: 1}): the next month, the day clamped to its length *)
plusOneMonth(ymd) ==
    LET y == IF ymd.month = 12 THEN ymd.year + 1 ELSE ymd.year
        m == IF ymd.month = 12 THEN 1 ELSE ymd.month + 1
    IN  [year |-> y, month |-> m, day |-> Min(ymd.day, DaysInMonth(m))]

startOfMonth(ymd) == [ymd EXCEPT !.day = 1]

firstDayOfNextMonth_NoStartOf(dt) == DateOf(plusOneMonth(YMD(toISODate(dt))))

(* firstDayOfNextMonth(dt) = dt.plus({months: 1}).startOf("month").toISODate() *)
firstDayOfNextMonth(dt) == DateOf(startOfMonth(plusOneMonth(YMD(toISODate(dt)))))

isMembershipActive_StartOfDay(membershipEndAt, at) ==
    IF membershipEndAt = Null
        THEN FALSE
        ELSE startOfDay(fromISODate(membershipEndAt)) >= at

isMembershipActive(membershipEndAt, at) ==
    IF membershipEndAt = Null
        THEN FALSE
        ELSE endOfDay(fromISODate(membershipEndAt)) >= at

(* new Date("YYYY-MM-DD"): midnight UTC of that date *)
newDate(dateStr) == dateStr * HoursPerDay

(* The column members.membership_end_at is a date (spec 3: "date or absent"):
   an ISO timestamp written to it keeps its date part, which toISOString()
   gives in UTC. *)
ToDateColumn(iso) == IF iso = Null THEN Null ELSE iso \div HoursPerDay

----------------------------------------------------------------------------
(* The store *)

Members == {"m1", "m2"}

MembersRoutes == {"part_001", "members.ts"}
CashbackServices == {"part_004", "cashbackService.ts"}

(* rows of membership_payments of one member *)
PaymentsOf(memberId) == {p \in membership_payments : p.member_id = memberId}

(* .order("paid_at", {ascending: false}).limit(n) over the rows of one member:
   the n latest, latest first.  paid_at is unique per member (see Pay). *)
RECURSIVE LatestPayments(_, _)
LatestPayments(rows, n) ==
    IF n = 0 \/ rows = {}
        THEN <<>>
        ELSE LET last == CHOOSE p \in rows : \A q \in rows : q.paid_at <= p.paid_at
             IN  <<last>> \o LatestPayments(rows \ {last}, n - 1)

(* a fresh row id (the database draws a uuid) *)
FreshId(rows) == CHOOSE i \in 1..(Cardinality(rows) + 1) : \A r \in rows : r.id # i

Response(op, status, err) == [op |-> op, status |-> status, err |-> err]

NoRequest ==
    [memberId |-> "m1", totalAmount |-> 0, paymentType |-> "none", cashbackToUse |-> 0,
     transactedAt |-> Null]

CallIds == {"c1", "c2"}

(* a request slot: op and pc say which handler runs and the store call it is
   about to make; the rest are the handler's local variables *)
IdleCall ==
    [op |-> "idle", pc |-> "done", n |-> 0, status |-> 0, body |-> NoRequest,
     at |-> Null, end |-> Null, active |-> FALSE, balance |-> 0, earned |-> 0,
     row |-> Null, rows |-> <<>>]

NoProbe == [fn |-> "none", done |-> FALSE, a |-> 0, b |-> 0, c |-> 0, out |-> 0]

Snapshot(memberId) ==
    [member |-> memberId,
     membership_end_at |-> members[memberId].membership_end_at,
     payments |-> PaymentsOf(memberId)]

----------------------------------------------------------------------------
(* POST /members/:id/membership/pay *)

DEFAULT_AMOUNT == 35000

(* A store call fails (at most MaxFaults do in a run) or answers *)
Faulty == faults < MaxFaults /\ faults' = faults + 1
Sound == faults' = faults

(* PayMembershipSchema: z.number().int().positive(); an absent amount fails too *)
PayMembershipSchemaOk(amount) == amount # Null /\ amount > 0

(* the faulty variant: 30 days from the payment, whatever the current end *)
PayNewEndA_FromNow(currentEndStr) == toISODate(plusDays(nowJkt(Null), MEMBERSHIP_DAYS))

(* part_001: the base is the current end date while the member is active *)
PayNewEndA(currentEndStr) ==
    LET current == nowJkt(Null)
        baseDate == IF currentEndStr # Null /\ isMembershipActive(currentEndStr, current)
                        THEN fromISODate(currentEndStr)
                        ELSE current
    IN  toISODate(plusDays(baseDate, MEMBERSHIP_DAYS))

PaymentRowA(id, memberId, amount, currentEndStr) ==
    [id |-> id,
     member_id |-> memberId,
     amount |-> amount,
     paid_at |-> nowJkt(Null),
     previous_end_at |-> currentEndStr,
     new_end_at |-> PayNewEndA(currentEndStr),
     period_start |-> Null,
     period_end |-> Null]

PayA(memberId, amount, fail) ==
    /\ membersRoute = "part_001"
    /\ snap' = Snapshot(memberId)
    /\ IF ~PayMembershipSchemaOk(amount)
         THEN /\ resp' = Response("pay", 400, "InvalidBody")
              /\ Sound
              /\ UNCHANGED <<members, membership_payments>>
         ELSE IF fail = "select_member"
         THEN /\ resp' = Response("pay", 404, "MemberNotFound")
              /\ Faulty
              /\ UNCHANGED <<members, membership_payments>>
         ELSE LET currentEndStr == members[memberId].membership_end_at
                  newEndStr == PayNewEndA(currentEndStr)
                  row == PaymentRowA(FreshId(membership_payments), memberId, amount,
                                    currentEndStr)
              IN  IF fail = "insert_payment"
                    THEN /\ resp' = Response("pay", 500, "StoreUnavailable")
                         /\ Faulty
                         /\ UNCHANGED <<members, membership_payments>>
                    ELSE /\ membership_payments' = membership_payments \cup {row}
                         /\ IF fail = "update_member"
                              THEN /\ resp' = Response("pay", 500, "StoreUnavailable")
                                   /\ Faulty
                                   /\ UNCHANGED members
                              ELSE /\ members' = [members EXCEPT
                                          ![memberId].membership_end_at = newEndStr]
                                   /\ Sound
                                   /\ resp' = Response("pay", 200, "")

(* members.ts: JS Date arithmetic; the base is the end date while it is later
   than now *)
PayBaseB(membership_end_at, nowDate) ==
    LET currentEnd == IF membership_end_at # Null THEN newDate(membership_end_at) ELSE Null
    IN  IF currentEnd # Null /\ currentEnd > nowDate THEN currentEnd ELSE nowDate

(* new Date(base.getTime() + 30 * 24 * 60 * 60 * 1000) *)
PayNewEndB(baseDate) == baseDate + MEMBERSHIP_DAYS * HoursPerDay

PaymentRowB(id, memberId, amount, membership_end_at) ==
    LET nowDate == now
        baseDate == PayBaseB(membership_end_at, nowDate)
    IN  [id |-> id,
         member_id |-> memberId,
         amount |-> IF amount = Null THEN DEFAULT_AMOUNT ELSE amount,
         paid_at |-> nowDate,
         previous_end_at |-> Null,
         new_end_at |-> Null,
         period_start |-> baseDate,
         period_end |-> PayNewEndB(baseDate)]

PayB(memberId, amount, fail) ==
    /\ membersRoute = "members.ts"
    /\ snap' = Snapshot(memberId)
    /\ IF fail = "select_member"
         THEN /\ resp' = Response("pay", 404, "MemberNotFound")
              /\ Faulty
              /\ UNCHANGED <<members, membership_payments>>
         ELSE LET row == PaymentRowB(FreshId(membership_payments), memberId, amount,
                                      members[memberId].membership_end_at)
                  newEndIso == row.period_end
              IN  IF fail = "insert_payment"
                    THEN /\ resp' = Response("pay", 500, "StoreUnavailable")
                         /\ Faulty
                         /\ UNCHANGED <<members, membership_payments>>
                    ELSE /\ membership_payments' = membership_payments \cup {row}
                         /\ IF fail = "update_member"
                              THEN /\ resp' = Response("pay", 500, "StoreUnavailable")
                                   /\ Faulty
                                   /\ UNCHANGED members
                              ELSE /\ members' = [members EXCEPT
                                          ![memberId].membership_end_at =
                                              ToDateColumn(newEndIso)]
                                   /\ Sound
                                   /\ resp' = Response("pay", 200, "")

PayFails == {"none", "select_member", "insert_payment", "update_member"}

(* The clock reads milliseconds, a request takes several round trips to the
   store: two requests handled one after the other never stamp the same
   paid_at.  With the model's clock of whole hours that is the first guard. *)
Pay(memberId, amount, fail) ==
    /\ \A p \in PaymentsOf(memberId) : p.paid_at < now
    /\ Cardinality(PaymentsOf(memberId)) < MaxPayments
    /\ \/ PayA(memberId, amount, fail)
       \/ PayB(memberId, amount, fail)
    /\ UNCHANGED <<membersRoute, cashbackService, now, ticks, transactions,
                   cashback_ledger, req, calls, probe>>

----------------------------------------------------------------------------
(* POST /members/:id/membership/undo-last-payment *)

(* the faulty variant: an undo with nothing to undo answers 200 *)
NoPaymentResponse_Ok == Response("undo", 200, "")

(* const last = (data || [])[0]; if (!last) return res.status(400) *)
NoPaymentResponse == Response("undo", 400, "NoPaymentToUndo")

(* part_001: restore previous_end_at of the latest payment, then delete it;
   a failed delete is logged and the request still answers 200 *)
UndoA(memberId, fail) ==
    /\ membersRoute = "part_001"
    /\ IF fail = "select_payments"
         THEN /\ resp' = Response("undo", 500, "StoreUnavailable")
              /\ Faulty
              /\ UNCHANGED <<members, membership_payments>>
         ELSE LET data == LatestPayments(PaymentsOf(memberId), 1)
              IN  IF Len(data) = 0
                    THEN /\ resp' = NoPaymentResponse
                         /\ Sound
                         /\ UNCHANGED <<members, membership_payments>>
                    ELSE LET last == data[1]
                             previousEnd == last.previous_end_at
                         IN  IF fail = "update_member"
                               THEN /\ resp' = Response("undo", 500, "StoreUnavailable")
                                    /\ Faulty
                                    /\ UNCHANGED <<members, membership_payments>>
                               ELSE /\ members' = [members EXCEPT
                                           ![memberId].membership_end_at = previousEnd]
                                    /\ IF fail = "delete_payment"
                                         THEN Faulty /\ UNCHANGED membership_payments
                                         ELSE /\ Sound
                                              /\ membership_payments' =
                                                     {p \in membership_payments :
                                                         p.id # last.id}
                                    /\ resp' = Response("undo", 200, "")

(* members.ts: delete the latest payment, then set the end date to period_end
   of the payment before it (null when there is none) *)
UndoNewEndB(payments) ==
    IF Len(payments) >= 2 THEN payments[2].period_end ELSE Null

UndoB(memberId, fail) ==
    /\ membersRoute = "members.ts"
    /\ IF fail = "select_payments"
         THEN /\ resp' = Response("undo", 500, "StoreUnavailable")
              /\ Faulty
              /\ UNCHANGED <<members, membership_payments>>
         ELSE LET payments == LatestPayments(PaymentsOf(memberId), 2)
              IN  IF Len(payments) = 0
                    THEN /\ resp' = NoPaymentResponse
                         /\ Sound
                         /\ UNCHANGED <<members, membership_payments>>
                    ELSE LET lastPayment == payments[1]
                             newEnd == UndoNewEndB(payments)
                         IN  IF fail = "delete_payment"
                               THEN /\ resp' = Response("undo", 500, "StoreUnavailable")
                                    /\ Faulty
                                    /\ UNCHANGED <<members, membership_payments>>
                               ELSE /\ membership_payments' =
                                           {p \in membership_payments :
                                               p.id # lastPayment.id}
                                    /\ IF fail = "update_member"
                                         THEN /\ resp' = Response("undo", 500,
                                                                  "StoreUnavailable")
                                              /\ Faulty
                                              /\ UNCHANGED members
                                         ELSE /\ members' = [members EXCEPT
                                                     ![memberId].membership_end_at =
                                                         ToDateColumn(newEnd)]
                                              /\ Sound
                                              /\ resp' = Response("undo", 200, "")

UndoFails == {"none", "select_payments", "update_member", "delete_payment"}

UndoLastPayment(memberId, fail) ==
    /\ \/ UndoA(memberId, fail)
       \/ UndoB(memberId, fail)
    /\ UNCHANGED <<membersRoute, cashbackService, now, ticks, transactions,
                   cashback_ledger, snap, req, calls, probe>>

----------------------------------------------------------------------------
(* services/cashbackService.ts *)

RECURSIVE SumOf(_, _)
(* rows.reduce((sum, r) => sum + (r[field] || 0), 0) *)
SumOf(rows, field) ==
    IF rows = <<>> THEN 0 ELSE Head(rows)[field] + SumOf(Tail(rows), field)

IsUsableEarn(memberId, today, r) ==
    r.member_id = memberId /\ r.entry_type = "earn"
        /\ r.usable_from # Null /\ r.usable_from <= today

IsSpend(memberId, r) ==
    r.member_id = memberId /\ r.entry_type \in {"spend", "adjust"}

(* getUsableCashbackBalance(memberId, at) over the rows of cashback_ledger *)
getUsableCashbackBalance(ledger, memberId, at) ==
    LET today == toISODate(at)
        earns == SelectSeq(ledger, LAMBDA r : IsUsableEarn(memberId, today, r))
        spends == SelectSeq(ledger, LAMBDA r : IsSpend(memberId, r))
        totalEarn == SumOf(earns, "amount")
        totalSpend == SumOf(spends, "amount")
    IN  totalEarn + totalSpend

(* the faulty variant: .gte("usable_from", today) *)
getPendingCashbackBalance_Gte(ledger, memberId, at) ==
    LET today == toISODate(at)
        earns == SelectSeq(ledger, LAMBDA r :
                     r.member_id = memberId /\ r.entry_type = "earn"
                         /\ r.usable_from # Null /\ r.usable_from >= today)
    IN  SumOf(earns, "amount")

(* getPendingCashbackBalance(memberId, at): part_004 and part_001 alike *)
getPendingCashbackBalance(ledger, memberId, at) ==
    LET today == toISODate(at)
        earns == SelectSeq(ledger, LAMBDA r :
                     r.member_id = memberId /\ r.entry_type = "earn"
                         /\ r.usable_from # Null /\ r.usable_from > today)
    IN  SumOf(earns, "amount")

(* the faulty variant: the member's rows of every day *)
TransactionsOfDay_EveryDay(memberId, at) ==
    SelectSeq(transactions, LAMBDA r : r.member_id = memberId)

(* the faulty variant: the day's rows of every member *)
TransactionsOfDay_AnyMember(memberId, at) ==
    SelectSeq(transactions, LAMBDA r :
        r.transacted_at >= startOfDay(at) /\ r.transacted_at <= endOfDay(at))

(* the rows calculateCashbackForTransaction selects: the member's transactions
   with dayStart <= transacted_at <= dayEnd *)
TransactionsOfDay(memberId, at) ==
    SelectSeq(transactions, LAMBDA r :
        r.member_id = memberId
            /\ r.transacted_at >= startOfDay(at) /\ r.transacted_at <= endOfDay(at))

(* part_004 *)
MULTIPLE == 15000
PER_MULTIPLE_CB == 2500
DAILY_MAX == 5000

EarnedA(prevCashPaid, prevEarned, paidCash) ==
    IF paidCash < 15000
        THEN 0
        ELSE LET todayCashPaid == prevCashPaid + paidCash
                 multiples == todayCashPaid \div MULTIPLE
                 theoreticalEarn == multiples * PER_MULTIPLE_CB
                 earned1 == Max(theoreticalEarn - prevEarned, 0)
                 remainingLimit == DAILY_MAX - prevEarned
                 earned2 == IF remainingLimit <= 0 THEN 0
                            ELSE IF earned1 > remainingLimit THEN remainingLimit
                            ELSE earned1
             IN  Max(earned2, 0)

(* src/services/cashbackService.ts *)
step == 15000
rewardPerStep == 2500
maxDaily == 5000

EarnedB(prevCashPaid, prevCashbackEarned, paidCash) ==
    IF paidCash <= 0
        THEN 0
        ELSE LET newTotalCash == prevCashPaid + paidCash
                 unitCount == newTotalCash \div step
                 possibleTotal == Min(unitCount * rewardPerStep, maxDaily)
             IN  Max(0, possibleTotal - prevCashbackEarned)

Earned_NoCap(service, prevCashPaid, prevEarned, paidCash) ==
    IF paidCash <= 0
        THEN 0
        ELSE Max(0, ((prevCashPaid + paidCash) \div step) * rewardPerStep - prevEarned)

(* the rule of the service deployed *)
Earned(service, prevCashPaid, prevEarned, paidCash) ==
    IF service = "part_004"
        THEN EarnedA(prevCashPaid, prevEarned, paidCash)
        ELSE EarnedB(prevCashPaid, prevEarned, paidCash)

(* does calculateCashbackForTransaction query the store?  Both return before
   the select on their early exit *)
CalculateQueries(service, paidCash) ==
    IF service = "part_004" THEN paidCash >= 15000 ELSE paidCash > 0

calculateCashbackForTransaction(memberId, paidCash, at) ==
    LET rows == TransactionsOfDay(memberId, at)
    IN  Earned(cashbackService, SumOf(rows, "paid_cash"),
               SumOf(rows, "cashback_earned"), paidCash)

(* addCashbackEarnEntry: the row inserted *)
EarnEntry(memberId, transactionId, earned, at) ==
    [member_id |-> memberId,
     transaction_id |-> transactionId,
     entry_type |-> "earn",
     amount |-> earned,
     usable_from |-> firstDayOfNextMonth(at)]

(* addCashbackSpendEntry: the row inserted *)
SpendEntry(memberId, transactionId, spent) ==
    [member_id |-> memberId,
     transaction_id |-> transactionId,
     entry_type |-> "spend",
     amount |-> 0 - spent,
     usable_from |-> Null]

(* getCashbackSummary(memberId) of src/routes/members.ts *)
RECURSIVE SummaryLoop(_, _, _, _)
SummaryLoop(rows, today, usableCashback, pendingCashback) ==
    IF rows = <<>>
        THEN [usableCashback |-> usableCashback, pendingCashback |-> pendingCashback]
        ELSE LET row == Head(rows)
                 amt == row.amount
             IN  IF row.entry_type = "earn"
                   THEN IF row.usable_from # Null /\ row.usable_from <= today
                          THEN SummaryLoop(Tail(rows), today,
                                           usableCashback + amt, pendingCashback)
                          ELSE SummaryLoop(Tail(rows), today,
                                           usableCashback, pendingCashback + amt)
                   ELSE IF row.entry_type = "spend"
                          THEN SummaryLoop(Tail(rows), today,
                                           usableCashback - amt, pendingCashback)
                          ELSE SummaryLoop(Tail(rows), today,
                                           usableCashback, pendingCashback)

getCashbackSummary(ledger, memberId) ==
    LET today == toISODate(nowJkt(Null))
        data == SelectSeq(ledger, LAMBDA r : r.member_id = memberId)
        sums == SummaryLoop(data, today, 0, 0)
    IN  [sums EXCEPT !.usableCashback = Max(sums.usableCashback, 0)]

----------------------------------------------------------------------------
(* POST /transactions *)

CreateTransactionSchemaOk_Any(totalAmount, cashbackToUse) == TRUE

(* CreateTransactionSchema: totalAmount a positive integer, cashbackToUse an
   integer >= 0 *)
CreateTransactionSchemaOk(totalAmount, cashbackToUse) ==
    totalAmount > 0 /\ cashbackToUse >= 0

ValidRequest(r) == CreateTransactionSchemaOk(r.totalAmount, r.cashbackToUse)

(* the faulty variant: the cashback used is not taken off the cash paid *)
TransactionRow_NoSplit(memberId, dt, totalAmount, paidCash, paidCashback, cashbackEarned) ==
    [id |-> Len(transactions) + 1,
     member_id |-> memberId,
     transacted_at |-> dt,
     day_key |-> toDayKey(dt),
     total_amount |-> totalAmount,
     paid_cash |-> totalAmount,
     paid_cashback |-> paidCashback,
     cashback_earned |-> cashbackEarned,
     cashback_spent |-> paidCashback]

TransactionRow(memberId, dt, totalAmount, paidCash, paidCashback, cashbackEarned) ==
    [id |-> Len(transactions) + 1,
     member_id |-> memberId,
     transacted_at |-> dt,
     day_key |-> toDayKey(dt),
     total_amount |-> totalAmount,
     paid_cash |-> paidCash,
     paid_cashback |-> paidCashback,
     cashback_earned |-> cashbackEarned,
     cashback_spent |-> paidCashback]

(* the request met no failing call: every call it made succeeded *)
Unfailed(fail) == fail = "none" /\ Sound

Reject(status, err) ==
    /\ resp' = Response("trx", status, err)
    /\ UNCHANGED <<transactions, cashback_ledger>>

(* the faulty variant: the new rows take the place of the old ones *)
PersistTransaction_Replace(memberId, dt, totalAmount, paidCash, paidCashback, cashbackEarned, fail) ==
    /\ Unfailed(fail)
    /\ resp' = Response("trx", 201, "")
    /\ transactions' = <<TransactionRow(memberId, dt, totalAmount, paidCash,
                                        paidCashback, cashbackEarned)>>
    /\ cashback_ledger' = <<>>

(* from the insert of the transaction on: lines 91-134 *)
PersistTransaction(memberId, dt, totalAmount, paidCash, paidCashback, cashbackEarned, fail) ==
    LET trx == TransactionRow(memberId, dt, totalAmount, paidCash, paidCashback,
                              cashbackEarned)
        earn == EarnEntry(memberId, trx.id, cashbackEarned, dt)
        spend == SpendEntry(memberId, trx.id, paidCashback)
    IN  IF fail = "insert_transaction"
          THEN Faulty /\ Reject(500, "StoreUnavailable")
          ELSE /\ transactions' = Append(transactions, trx)
               /\ IF cashbackEarned > 0 /\ fail = "insert_earn"
                    THEN /\ Faulty
                         /\ resp' = Response("trx", 500, "StoreUnavailable")
                         /\ UNCHANGED cashback_ledger
                    ELSE LET withEarn == IF cashbackEarned > 0
                                             THEN Append(cashback_ledger, earn)
                                             ELSE cashback_ledger
                         IN  IF paidCashback > 0 /\ fail = "insert_spend"
                               THEN /\ Faulty
                                    /\ resp' = Response("trx", 500, "StoreUnavailable")
                                    /\ cashback_ledger' = withEarn
                               ELSE /\ Unfailed(fail)
                                    /\ resp' = Response("trx", 201, "")
                                    /\ cashback_ledger' =
                                           IF paidCashback > 0
                                               THEN Append(withEarn, spend)
                                               ELSE withEarn

Earns_AnyCash(membershipActive, paidCash) == paidCash > 0

(* line 82 *)
Earns(membershipActive, paidCash) == membershipActive /\ paidCash > 0

(* steps 4-5: the earned amount, then the writes *)
EarnAndPersist(memberId, dt, totalAmount, paidCash, paidCashback, membershipActive, fail) ==
    IF Earns(membershipActive, paidCash)
        THEN IF fail = "select_transactions"
                    /\ CalculateQueries(cashbackService, paidCash)
               THEN Faulty /\ Reject(500, "StoreUnavailable")
               ELSE PersistTransaction(memberId, dt, totalAmount, paidCash, paidCashback,
                        calculateCashbackForTransaction(memberId, paidCash, dt), fail)
        ELSE PersistTransaction(memberId, dt, totalAmount, paidCash, paidCashback,
                                0, fail)

ExceedsBalance_Never(cashbackToUse, usableBalance) == FALSE

(* line 70 *)
ExceedsBalance(cashbackToUse, usableBalance) == cashbackToUse > usableBalance

CashbackRefused_Never(paymentType, membershipActive) == FALSE

(* line 42: cashback is for active members only *)
CashbackRefused(paymentType, membershipActive) ==
    paymentType = "cashback" /\ ~membershipActive

TrxFails == {"none", "select_member", "select_ledger", "select_transactions",
             "insert_transaction", "insert_earn", "insert_spend"}

PostTransaction(memberId, totalAmount, paymentType, cashbackToUse, transactedAt, fail) ==
    /\ Len(transactions) < MaxTrx
    /\ fail = "none" \/ faults < MaxFaults
    /\ UNCHANGED <<membersRoute, cashbackService, now, ticks, members,
                   membership_payments, snap, calls, probe>>
    /\ req' = [memberId |-> memberId, totalAmount |-> totalAmount,
               paymentType |-> paymentType, cashbackToUse |-> cashbackToUse,
               transactedAt |-> transactedAt]
    /\ IF ~CreateTransactionSchemaOk(totalAmount, cashbackToUse)
         THEN Unfailed(fail) /\ Reject(400, "InvalidBody")
         ELSE IF fail = "select_member"
         THEN Faulty /\ Reject(404, "MemberNotFound")
         ELSE
           LET dt == nowJkt(transactedAt)
               membershipActive ==
                   isMembershipActive(members[memberId].membership_end_at, dt)
           IN  IF CashbackRefused(paymentType, membershipActive)
                 THEN Unfailed(fail) /\ Reject(400, "MembershipInactive")
                 ELSE IF paymentType = "cash"
                 THEN EarnAndPersist(memberId, dt, totalAmount, totalAmount, 0,
                                     membershipActive, fail)
                 ELSE IF fail = "select_ledger"
                 THEN Faulty /\ Reject(500, "StoreUnavailable")
                 ELSE
                   LET usableBalance ==
                           getUsableCashbackBalance(cashback_ledger, memberId, dt)
                   IN  IF cashbackToUse <= 0
                         THEN Unfailed(fail) /\ Reject(400, "InvalidAmount")
                         ELSE IF cashbackToUse > totalAmount
                         THEN Unfailed(fail) /\ Reject(400, "InvalidAmount")
                         ELSE IF ExceedsBalance(cashbackToUse, usableBalance)
                         THEN Unfailed(fail) /\ Reject(400, "InsufficientCashback")
                         ELSE EarnAndPersist(memberId, dt, totalAmount,
                                             totalAmount - cashbackToUse, cashbackToUse,
                                             membershipActive, fail)

----------------------------------------------------------------------------
(* The clock advances between requests *)

(* six hours (past 07:00 in Jakarta, where the UTC date catches up), a day,
   the length of a membership *)
TickSteps == {6, HoursPerDay, MEMBERSHIP_DAYS * HoursPerDay}

Advance(steps) ==
    /\ ticks < MaxTicks
    /\ \E d \in steps : now' = now + d
    /\ ticks' = ticks + 1
    /\ UNCHANGED <<membersRoute, cashbackService, members, membership_payments,
                   transactions, cashback_ledger, resp, faults, snap, req, calls, probe>>

----------------------------------------------------------------------------
(* Membership renewal: one member pays and undoes, one request at a time *)

(* 2025-01-31T03:00 in Jakarta, 2025-01-30T20:00Z *)
StartInstant == 30 * HoursPerDay + 3 - JKT_OFFSET

PayBodies == {Null, 0, DEFAULT_AMOUNT}

NewMember == [membership_end_at |-> Null, is_archived |-> FALSE]

InitStore ==
    /\ members = [m \in Members |-> NewMember]
    /\ membership_payments = {}
    /\ transactions = <<>>
    /\ cashback_ledger = <<>>
    /\ resp = Response("none", 0, "")
    /\ snap = [member |-> "m1", membership_end_at |-> Null, payments |-> {}]
    /\ req = NoRequest
    /\ calls = [c \in CallIds |-> IdleCall]
    /\ probe = NoProbe

InitMembership ==
    /\ membersRoute \in MembersRoutes
    /\ cashbackService = "cashbackService.ts"
    /\ now = StartInstant
    /\ ticks = 0
    /\ faults = 0
    /\ InitStore

PayStep == \E amount \in PayBodies, fail \in PayFails : Pay("m1", amount, fail)

UndoStep == \E fail \in UndoFails : UndoLastPayment("m1", fail)

Tick == Advance(TickSteps)

NextMembership == Tick \/ PayStep \/ UndoStep

SpecMembership == InitMembership /\ [][NextMembership]_vars

----------------------------------------------------------------------------
(* Purchases: one member's transactions, one request at a time.  The member
   either never paid a membership or paid one at the first instant. *)

TotalAmounts == {0, 2500, 10000, 45000}
CashbackToUse == {0, 2500, 10000}
PaymentTypes == {"cash", "cashback"}

(* the store after one membership payment by m1, as Pay leaves it *)
EnrolledPayment(route) ==
    IF route = "part_001"
        THEN PaymentRowA(1, "m1", DEFAULT_AMOUNT, Null)
        ELSE PaymentRowB(1, "m1", DEFAULT_AMOUNT, Null)

EnrolledEnd(route) ==
    IF route = "part_001"
        THEN PayNewEndA(Null)
        ELSE ToDateColumn(EnrolledPayment(route).period_end)

InitCashback ==
    /\ membersRoute \in MembersRoutes
    /\ cashbackService \in CashbackServices
    /\ now = StartInstant
    /\ ticks = 0
    /\ faults = 0
    /\ \E enrolled \in BOOLEAN :
          /\ membership_payments =
                 IF enrolled THEN {EnrolledPayment(membersRoute)} ELSE {}
          /\ members = [m \in Members |->
                           IF m = "m1" /\ enrolled
                               THEN [NewMember EXCEPT
                                        !.membership_end_at = EnrolledEnd(membersRoute)]
                               ELSE NewMember]
    /\ transactions = <<>>
    /\ cashback_ledger = <<>>
    /\ resp = Response("none", 0, "")
    /\ snap = [member |-> "m1", membership_end_at |-> Null, payments |-> {}]
    /\ req = NoRequest
    /\ calls = [c \in CallIds |-> IdleCall]
    /\ probe = NoProbe

TrxStep ==
    \E totalAmount \in TotalAmounts, paymentType \in PaymentTypes,
       cashbackToUse \in CashbackToUse, fail \in TrxFails :
        /\ paymentType = "cash" => cashbackToUse = 0
        /\ PostTransaction("m1", totalAmount, paymentType, cashbackToUse, Null, fail)

(* a day, the length of a membership *)
DaySteps == {HoursPerDay, MEMBERSHIP_DAYS * HoursPerDay}

NextDay == Advance(DaySteps)

NextCashback == NextDay \/ TrxStep

SpecCashback == InitCashback /\ [][NextCashback]_vars

----------------------------------------------------------------------------
(* Purchases whose body may carry transactedAt: the time of the request, the
   same hour a day earlier or a day later *)

TransactedAts == {Null, now - HoursPerDay, now + HoursPerDay}

TrxAtStep ==
    \E totalAmount \in TotalAmounts \ {0}, paymentType \in PaymentTypes,
       cashbackToUse \in CashbackToUse \ {0}, transactedAt \in TransactedAts :
        PostTransaction("m1", totalAmount, paymentType, cashbackToUse,
                        transactedAt, "none")

NextCashbackAt == NextDay \/ TrxAtStep

SpecCashbackAt == InitCashback /\ [][NextCashbackAt]_vars

----------------------------------------------------------------------------
(* The counter: one member buys, pays the membership and undoes, one request
   at a time and the store answering every call.  Bodies may break the schema
   (a total of 0, a negative cashbackToUse) and a cash purchase may carry a
   cashbackToUse. *)

CounterBodies ==
    {[totalAmount |-> t, paymentType |-> "cash", cashbackToUse |-> 2500] :
        t \in {0, 45000}}
    \cup {[totalAmount |-> t, paymentType |-> "cashback", cashbackToUse |-> u] :
             t \in {2500, 10000}, u \in {0 - 2500, 0, 2500, 10000}}

CounterTrx ==
    \E body \in CounterBodies :
        PostTransaction("m1", body.totalAmount, body.paymentType, body.cashbackToUse,
                        Null, "none")

CounterPay == \E amount \in PayBodies : Pay("m1", amount, "none")

CounterUndo == UndoLastPayment("m1", "none")

NextCounter == NextDay \/ CounterTrx \/ CounterPay \/ CounterUndo

SpecCounter == InitCashback /\ [][NextCounter]_vars

----------------------------------------------------------------------------
(* Two members at the counter: m2 paid a membership at the first instant and
   buys; m1 buys, pays and undoes *)

PairPayment(route) == [EnrolledPayment(route) EXCEPT !.id = 2, !.member_id = "m2"]

InitPair ==
    /\ membersRoute \in MembersRoutes
    /\ cashbackService \in CashbackServices
    /\ now = StartInstant
    /\ ticks = 0
    /\ faults = 0
    /\ \E enrolled \in BOOLEAN :
          /\ membership_payments =
                 {PairPayment(membersRoute)}
                     \cup IF enrolled THEN {EnrolledPayment(membersRoute)} ELSE {}
          /\ members = [m \in Members |->
                           IF m = "m2" \/ enrolled
                               THEN [NewMember EXCEPT
                                        !.membership_end_at = EnrolledEnd(membersRoute)]
                               ELSE NewMember]
    /\ transactions = <<>>
    /\ cashback_ledger = <<>>
    /\ resp = Response("none", 0, "")
    /\ snap = [member |-> "m1", membership_end_at |-> Null, payments |-> {}]
    /\ req = NoRequest
    /\ calls = [c \in CallIds |-> IdleCall]
    /\ probe = NoProbe

PairBodies ==
    {[totalAmount |-> 45000, paymentType |-> "cash", cashbackToUse |-> 0],
     [totalAmount |-> 10000, paymentType |-> "cashback", cashbackToUse |-> 2500]}

PairTrx(m) ==
    \E body \in PairBodies :
        PostTransaction(m, body.totalAmount, body.paymentType, body.cashbackToUse,
                        Null, "none")

PairPay == Pay("m1", DEFAULT_AMOUNT, "none")

PairUndo == UndoLastPayment("m1", "none")

NextPair == NextDay \/ PairPay \/ PairUndo \/ \E m \in Members : PairTrx(m)

SpecPair == InitPair /\ [][NextPair]_vars

----------------------------------------------------------------------------
(* The pure rules on their own: the cashback rule of the service deployed and
   isMembershipActive, each applied to inputs drawn from a bounded set *)

(* amounts around every multiple of 5,000 up to MaxCashSteps * 5,000 *)
CashSamples ==
    {k * 5000 + j : k \in 0..MaxCashSteps, j \in {0 - 1, 0, 1}} \cap Nat

EarnedSamples == {0, 2500, 5000, 7500}

EarnedInputs ==
    {[fn |-> "computeEarned", done |-> FALSE, a |-> priorCashToday,
      b |-> priorEarnedToday, c |-> incoming, out |-> 0] :
        priorCashToday \in CashSamples, priorEarnedToday \in EarnedSamples,
        incoming \in CashSamples \ {0}}

ActiveInputs ==
    {[fn |-> "isMembershipActive", done |-> FALSE, a |-> membershipEndAt,
      b |-> at, c |-> 0, out |-> FALSE] :
        membershipEndAt \in {Null} \cup 0..MaxProbeDay,
        at \in 0..((MaxProbeDay + 2) * HoursPerDay)}

InitRules ==
    /\ membersRoute = "part_001"
    /\ cashbackService \in CashbackServices
    /\ now = StartInstant
    /\ ticks = 0
    /\ faults = 0
    /\ members = [m \in Members |-> NewMember]
    /\ membership_payments = {}
    /\ transactions = <<>>
    /\ cashback_ledger = <<>>
    /\ resp = Response("none", 0, "")
    /\ snap = [member |-> "m1", membership_end_at |-> Null, payments |-> {}]
    /\ req = NoRequest
    /\ calls = [c \in CallIds |-> IdleCall]
    /\ probe \in EarnedInputs \cup ActiveInputs

(* calculateCashbackForTransaction reaches its rule only with paidCash > 0
   (transactions.ts line 82) *)
ComputeEarned ==
    /\ probe.fn = "computeEarned" /\ ~probe.done
    /\ probe' = [probe EXCEPT !.done = TRUE,
                              !.out = Earned(cashbackService, probe.a, probe.b, probe.c)]
    /\ UNCHANGED <<membersRoute, cashbackService, now, ticks, members,
                   membership_payments, transactions, cashback_ledger, resp,
                   faults, snap, req, calls>>

CheckActive ==
    /\ probe.fn = "isMembershipActive" /\ ~probe.done
    /\ probe' = [probe EXCEPT !.done = TRUE,
                              !.out = isMembershipActive(probe.a, probe.b)]
    /\ UNCHANGED <<membersRoute, cashbackService, now, ticks, members,
                   membership_payments, transactions, cashback_ledger, resp,
                   faults, snap, req, calls>>

NextRules == ComputeEarned \/ CheckActive

SpecRules == InitRules /\ [][NextRules]_vars

----------------------------------------------------------------------------
(* Requests in flight together.  The server awaits every store call, so other
   requests run between two store calls of one handler: each store call is a
   step of its own, and the handler's locals live in calls[c]. *)

Started == calls["c1"].n + calls["c2"].n

InFlight(c) == calls[c].pc # "done"

(* a slot takes the next request *)
Accepts(c) == ~InFlight(c) /\ Started < MaxCalls

NewCall(c, op, pc) == [IdleCall EXCEPT !.op = op, !.pc = pc, !.n = calls[c].n + 1]

(* ids of payment rows are never reused *)
RaceId == Started + 2

(* pay, to the first store call: parse the body, select the member, read the
   clock and compute the row (part_001 lines 320-342, members.ts 368-395).
   No two pays read the same instant. *)
PaySelect(c) ==
    /\ Accepts(c)
    /\ \A p \in PaymentsOf("m1") : p.paid_at < now
    /\ \A d \in CallIds : (calls[d].op = "pay" /\ InFlight(d)) => calls[d].at < now
    /\ LET currentEnd == members["m1"].membership_end_at
           row == IF membersRoute = "part_001"
                      THEN PaymentRowA(RaceId, "m1", DEFAULT_AMOUNT, currentEnd)
                      ELSE PaymentRowB(RaceId, "m1", DEFAULT_AMOUNT, currentEnd)
       IN  calls' = [calls EXCEPT ![c] =
                        [NewCall(c, "pay", "insert_payment") EXCEPT
                            !.at = now, !.end = currentEnd, !.row = row]]
    /\ UNCHANGED <<members, membership_payments>>

PayInsert(c) ==
    /\ calls[c].op = "pay" /\ calls[c].pc = "insert_payment"
    /\ membership_payments' = membership_payments \cup {calls[c].row}
    /\ calls' = [calls EXCEPT ![c].pc = "update_member"]
    /\ UNCHANGED members

PayUpdate(c) ==
    /\ calls[c].op = "pay" /\ calls[c].pc = "update_member"
    /\ members' = [members EXCEPT
                      !["m1"].membership_end_at =
                          IF membersRoute = "part_001"
                              THEN calls[c].row.new_end_at
                              ELSE ToDateColumn(calls[c].row.period_end)]
    /\ calls' = [calls EXCEPT ![c].pc = "done", ![c].status = 200]
    /\ UNCHANGED membership_payments

(* undo, to the first store call: select the latest payment (part_001 lines
   400-424), the latest two (members.ts lines 445-465) *)
UndoSelect(c) ==
    /\ Accepts(c)
    /\ LET rows == LatestPayments(PaymentsOf("m1"),
                                  IF membersRoute = "part_001" THEN 1 ELSE 2)
       IN  calls' = [calls EXCEPT ![c] =
                        IF Len(rows) = 0
                            THEN [NewCall(c, "undo", "done") EXCEPT !.status = 400]
                            ELSE [NewCall(c, "undo",
                                          IF membersRoute = "part_001"
                                              THEN "update_member"
                                              ELSE "delete_payment")
                                     EXCEPT !.rows = rows]]
    /\ UNCHANGED <<members, membership_payments>>

UndoUpdate(c) ==
    /\ calls[c].op = "undo" /\ calls[c].pc = "update_member"
    /\ IF membersRoute = "part_001"
         THEN /\ members' = [members EXCEPT
                                !["m1"].membership_end_at =
                                    calls[c].rows[1].previous_end_at]
              /\ calls' = [calls EXCEPT ![c].pc = "delete_payment"]
         ELSE /\ members' = [members EXCEPT
                                !["m1"].membership_end_at =
                                    ToDateColumn(UndoNewEndB(calls[c].rows))]
              /\ calls' = [calls EXCEPT ![c].pc = "done", ![c].status = 200]
    /\ UNCHANGED membership_payments

UndoDelete(c) ==
    /\ calls[c].op = "undo" /\ calls[c].pc = "delete_payment"
    /\ membership_payments' =
           {p \in membership_payments : p.id # calls[c].rows[1].id}
    /\ calls' = [calls EXCEPT
                    ![c].pc = IF membersRoute = "part_001"
                                  THEN "done" ELSE "update_member",
                    ![c].status = IF membersRoute = "part_001" THEN 200 ELSE 0]
    /\ UNCHANGED members

MembershipCall(c) ==
    /\ \/ PaySelect(c) \/ PayInsert(c) \/ PayUpdate(c)
       \/ UndoSelect(c) \/ UndoUpdate(c) \/ UndoDelete(c)
    /\ UNCHANGED <<membersRoute, cashbackService, now, ticks, transactions,
                   cashback_ledger, resp, faults, snap, req, probe>>

(* an hour passes *)
RaceTick == Advance({1})

InitMembershipRace ==
    /\ membersRoute \in MembersRoutes
    /\ cashbackService = "cashbackService.ts"
    /\ now = StartInstant
    /\ ticks = 0
    /\ faults = 0
    /\ \E enrolled \in BOOLEAN :
          /\ membership_payments =
                 IF enrolled THEN {EnrolledPayment(membersRoute)} ELSE {}
          /\ members = [m \in Members |->
                           IF m = "m1" /\ enrolled
                               THEN [NewMember EXCEPT
                                        !.membership_end_at = EnrolledEnd(membersRoute)]
                               ELSE NewMember]
    /\ transactions = <<>>
    /\ cashback_ledger = <<>>
    /\ resp = Response("none", 0, "")
    /\ snap = [member |-> "m1", membership_end_at |-> Null, payments |-> {}]
    /\ req = NoRequest
    /\ calls = [c \in CallIds |-> IdleCall]
    /\ probe = NoProbe

NextMembershipRace == RaceTick \/ \E c \in CallIds : MembershipCall(c)

SpecMembershipRace == InitMembershipRace /\ [][NextMembershipRace]_vars

----------------------------------------------------------------------------
(* POST /transactions in flight together, one store call a step.  The two
   selects of getUsableCashbackBalance are one step here. *)

PaidCashbackOf(body) ==
    IF body.paymentType = "cash" THEN 0 ELSE body.cashbackToUse

PaidCashOf(body) == body.totalAmount - PaidCashbackOf(body)

(* the faulty variant: the earn entry posted before the transaction is stored *)
AfterAmounts_EarnFirst(active, body) == "insert_earn"

(* where the handler goes once paidCash is known: lines 81-91 *)
AfterAmounts(active, body) ==
    IF Earns(active, PaidCashOf(body)) /\ CalculateQueries(cashbackService, PaidCashOf(body))
        THEN "select_transactions"
        ELSE "insert_transaction"

(* lines 26-53: parse, select the member, the membership check *)
TrxSelectMember(c, body) ==
    /\ Accepts(c)
    /\ ValidRequest(body)
    /\ LET dt == nowJkt(body.transactedAt)
           active == isMembershipActive(members["m1"].membership_end_at, dt)
           call == [NewCall(c, "trx", "done") EXCEPT
                       !.body = body, !.at = dt, !.active = active]
       IN  calls' = [calls EXCEPT ![c] =
                        IF CashbackRefused(body.paymentType, active)
                            THEN [call EXCEPT !.status = 400]
                            ELSE IF body.paymentType = "cash"
                            THEN [call EXCEPT !.pc = AfterAmounts(active, body)]
                            ELSE [call EXCEPT !.pc = "select_ledger"]]
    /\ UNCHANGED <<transactions, cashback_ledger>>

(* lines 55-78: the usable balance and the three checks *)
TrxSelectLedger(c) ==
    /\ calls[c].op = "trx" /\ calls[c].pc = "select_ledger"
    /\ LET body == calls[c].body
           usableBalance == getUsableCashbackBalance(cashback_ledger, "m1", calls[c].at)
       IN  calls' = [calls EXCEPT ![c] =
                        IF \/ body.cashbackToUse <= 0
                           \/ body.cashbackToUse > body.totalAmount
                           \/ ExceedsBalance(body.cashbackToUse, usableBalance)
                            THEN [@ EXCEPT !.pc = "done", !.status = 400,
                                           !.balance = usableBalance]
                            ELSE [@ EXCEPT !.pc = AfterAmounts(calls[c].active, body),
                                           !.balance = usableBalance]]
    /\ UNCHANGED <<transactions, cashback_ledger>>

(* lines 83-88: the day's totals read, the rule applied *)
TrxSelectDay(c) ==
    /\ calls[c].op = "trx" /\ calls[c].pc = "select_transactions"
    /\ calls' = [calls EXCEPT
                    ![c].earned = calculateCashbackForTransaction(
                                      "m1", PaidCashOf(calls[c].body), calls[c].at),
                    ![c].pc = "insert_transaction"]
    /\ UNCHANGED <<transactions, cashback_ledger>>

(* lines 91-106 *)
TrxInsert(c) ==
    /\ calls[c].op = "trx" /\ calls[c].pc = "insert_transaction"
    /\ LET body == calls[c].body
           trx == TransactionRow("m1", calls[c].at, body.totalAmount, PaidCashOf(body),
                                 PaidCashbackOf(body), calls[c].earned)
       IN  /\ transactions' = Append(transactions, trx)
           /\ calls' = [calls EXCEPT ![c] =
                           IF calls[c].earned > 0
                               THEN [@ EXCEPT !.row = trx.id, !.pc = "insert_earn"]
                               ELSE IF PaidCashbackOf(body) > 0
                               THEN [@ EXCEPT !.row = trx.id, !.pc = "insert_spend"]
                               ELSE [@ EXCEPT !.row = trx.id, !.pc = "done",
                                              !.status = 201]]
    /\ UNCHANGED cashback_ledger

(* lines 108-115 *)
TrxInsertEarn(c) ==
    /\ calls[c].op = "trx" /\ calls[c].pc = "insert_earn"
    /\ cashback_ledger' =
           Append(cashback_ledger,
                  EarnEntry("m1", calls[c].row, calls[c].earned, calls[c].at))
    /\ calls' = [calls EXCEPT ![c] =
                    IF PaidCashbackOf(calls[c].body) > 0
                        THEN [@ EXCEPT !.pc = "insert_spend"]
                        ELSE [@ EXCEPT !.pc = "done", !.status = 201]]
    /\ UNCHANGED transactions

(* lines 117-134 *)
TrxInsertSpend(c) ==
    /\ calls[c].op = "trx" /\ calls[c].pc = "insert_spend"
    /\ cashback_ledger' =
           Append(cashback_ledger,
                  SpendEntry("m1", calls[c].row, PaidCashbackOf(calls[c].body)))
    /\ calls' = [calls EXCEPT ![c].pc = "done", ![c].status = 201]
    /\ UNCHANGED transactions

(* bodies stamped by the server: a small and a large purchase, in cash or
   with 5,000 of cashback *)
RaceBodies ==
    {[memberId |-> "m1", totalAmount |-> t, paymentType |-> "cash",
      cashbackToUse |-> 0, transactedAt |-> Null] : t \in {10000, 45000}}
    \cup {[memberId |-> "m1", totalAmount |-> t, paymentType |-> "cashback",
           cashbackToUse |-> 5000, transactedAt |-> Null] : t \in {10000, 45000}}

TrxCall(c) ==
    /\ \/ \E body \in RaceBodies : TrxSelectMember(c, body)
       \/ TrxSelectLedger(c) \/ TrxSelectDay(c)
       \/ TrxInsert(c) \/ TrxInsertEarn(c) \/ TrxInsertSpend(c)
    /\ UNCHANGED <<membersRoute, cashbackService, now, ticks, members,
                   membership_payments, resp, faults, snap, req, probe>>

(* a day passes *)
RaceDay == Advance({HoursPerDay})

NextTrxRace == RaceDay \/ \E c \in CallIds : TrxCall(c)

SpecTrxRace == InitCashback /\ [][NextTrxRace]_vars

----------------------------------------------------------------------------
(* GET /members/:id/detail: the fields of the answer computed from the store.
   part_001 calls the two balance functions of the service, src/routes/members.ts
   its own getCashbackSummary. *)
GetDetail(memberId) ==
    LET current == nowJkt(Null)
        summary == getCashbackSummary(cashback_ledger, memberId)
    IN  [membershipEndAt |-> members[memberId].membership_end_at,
         isActive |-> isMembershipActive(members[memberId].membership_end_at, current),
         usableCashback |->
             IF membersRoute = "part_001"
                 THEN getUsableCashbackBalance(cashback_ledger, memberId, current)
                 ELSE summary.usableCashback,
         pendingCashback |->
             IF membersRoute = "part_001"
                 THEN getPendingCashbackBalance(cashback_ledger, memberId, current)
                 ELSE summary.pendingCashback]

(* The member directory: the list, the update and the detail of a member whose
   membership ends on any date, asked at any instant.  The fields of calls[c]
   hold the answer. *)

(* new Date().toISOString().slice(0, 10): the date in UTC *)
todayUTC(at) == at \div HoursPerDay

(* part_001 lines 89-93, 191-193, 250-252 *)
isActive(end, at) == end # Null /\ end >= todayUTC(at)

(* src/routes/members.ts: the isActive of mapMemberRow *)
mapMemberRow(membership_end_at, at) == isMembershipActive(membership_end_at, at)

RowIsActive(memberId) ==
    IF membersRoute = "part_001"
        THEN isActive(members[memberId].membership_end_at, now)
        ELSE mapMemberRow(members[memberId].membership_end_at, nowJkt(Null))

Answer(c, op, active) ==
    [NewCall(c, op, "done") EXCEPT
        !.status = 200, !.at = now, !.end = members["m1"].membership_end_at, !.active = active]

DirectoryFrame ==
    UNCHANGED <<membersRoute, cashbackService, now, ticks, members,
                membership_payments, transactions, cashback_ledger, resp, faults,
                snap, req, probe>>

(* GET /members *)
GetMembers(c) ==
    /\ Accepts(c)
    /\ calls' = [calls EXCEPT ![c] = Answer(c, "list", RowIsActive("m1"))]
    /\ DirectoryFrame

(* PUT /members/:id changes name and whatsapp, which the model leaves out *)
PutMember(c) ==
    /\ Accepts(c)
    /\ calls' = [calls EXCEPT ![c] = Answer(c, "update", RowIsActive("m1"))]
    /\ DirectoryFrame

(* GET /members/:id/detail *)
GetMemberDetail(c) ==
    /\ Accepts(c)
    /\ calls' = [calls EXCEPT ![c] = Answer(c, "detail", GetDetail("m1").isActive)]
    /\ DirectoryFrame

ProbeEnds == {Null} \cup 0..MaxProbeDay
ProbeInstants == 0..((MaxProbeDay + 2) * HoursPerDay)

InitDirectory ==
    /\ membersRoute \in MembersRoutes
    /\ cashbackService = "cashbackService.ts"
    /\ now \in ProbeInstants
    /\ ticks = 0
    /\ faults = 0
    /\ \E end \in ProbeEnds :
          members = [m \in Members |-> [NewMember EXCEPT !.membership_end_at = end]]
    /\ membership_payments = {}
    /\ transactions = <<>>
    /\ cashback_ledger = <<>>
    /\ resp = Response("none", 0, "")
    /\ snap = [member |-> "m1", membership_end_at |-> Null, payments |-> {}]
    /\ req = NoRequest
    /\ calls = [c \in CallIds |-> IdleCall]
    /\ probe = NoProbe

NextDirectory == \E c \in CallIds : GetMembers(c) \/ PutMember(c) \/ GetMemberDetail(c)

SpecDirectory == InitDirectory /\ [][NextDirectory]_vars

----------------------------------------------------------------------------
(* DELETE /members/:id.  A row removed from members leaves the domain of the
   variable. *)

Exists(memberId) == memberId \in DOMAIN members

Archived(memberId) == [members EXCEPT ![memberId].is_archived = TRUE]

Removed(memberId) == [m \in DOMAIN members \ {memberId} |-> members[m]]

(* part_001: when the update that archives fails, the row is deleted *)
DeleteA(memberId, fail) ==
    /\ membersRoute = "part_001"
    /\ IF fail = "none"
         THEN /\ members' = Archived(memberId)
              /\ Sound
              /\ resp' = Response("delete", 200, "")
         ELSE IF fail = "update_member"
         THEN /\ members' = Removed(memberId)
              /\ Faulty
              /\ resp' = Response("delete", 200, "")
         ELSE /\ UNCHANGED members
              /\ Faulty
              /\ resp' = Response("delete", 500, "StoreUnavailable")

(* src/routes/members.ts: archive or fail *)
DeleteB(memberId, fail) ==
    /\ membersRoute = "members.ts"
    /\ IF fail = "none"
         THEN /\ members' = Archived(memberId)
              /\ Sound
              /\ resp' = Response("delete", 200, "")
         ELSE /\ UNCHANGED members
              /\ Faulty
              /\ resp' = Response("delete", 500, "StoreUnavailable")

(* the update fails; the update and the delete both fail *)
DeleteFails == {"none", "update_member", "update_and_delete"}

DeleteMember(memberId, fail) ==
    /\ Exists(memberId)
    /\ \/ DeleteA(memberId, fail)
       \/ DeleteB(memberId, fail)
    /\ UNCHANGED <<membersRoute, cashbackService, now, ticks, membership_payments,
                   transactions, cashback_ledger, snap, req, calls, probe>>

(* The desk: a member buys and pays, and members are deleted; requests name
   members that exist *)
DeskTrx == Exists("m1") /\ PairTrx("m1")

DeskPay == Exists("m1") /\ PairPay

DeskDelete == \E m \in Members, fail \in DeleteFails : DeleteMember(m, fail)

NextDesk == NextDay \/ DeskTrx \/ DeskPay \/ DeskDelete

SpecDesk == InitCashback /\ [][NextDesk]_vars

----------------------------------------------------------------------------
(* Claims about membership renewal *)

EndAt(memberId) == members[memberId].membership_end_at

StoreUnchanged ==
    UNCHANGED <<members, membership_payments, transactions, cashback_ledger>>

(* C1: a successful pay followed immediately by a successful undoLastPayment
   leaves membershipEndAt and the member's payment list as they were before
   the pay. *)
C1_PayUndoRoundTrip ==
    [][(resp.op = "pay" /\ resp.status = 200 /\ UndoStep /\ resp'.status = 200)
          => /\ EndAt("m1")' = snap.membership_end_at
             /\ PaymentsOf("m1")' = snap.payments]_vars

(* C5 as stated: undoLastPayment on a member without payments always fails
   with the no-payment-to-undo error and changes no stored record. *)
C5_UndoNothingAlwaysNoPayment ==
    [][(UndoStep /\ PaymentsOf("m1") = {})
          => resp'.err = "NoPaymentToUndo" /\ StoreUnchanged]_vars

(* C5 amended: undoLastPayment on a member without payments always fails and
   changes no stored record; the error is no-payment-to-undo whenever the
   query for the payments succeeds, and the store's failure otherwise. *)
C5_UndoNothingFails ==
    [][(UndoStep /\ PaymentsOf("m1") = {})
          => /\ resp'.op = "undo"
             /\ resp'.status # 200
             /\ StoreUnchanged
             /\ IF faults' = faults
                  THEN resp'.status = 400 /\ resp'.err = "NoPaymentToUndo"
                  ELSE resp'.status = 500 /\ resp'.err = "StoreUnavailable"]_vars

C5_Witness ==
    /\ resp.op = "undo"
    /\ resp.err = "NoPaymentToUndo"
    /\ PaymentsOf("m1") = {}
    /\ EndAt("m1") = Null

(* C6: a second undoLastPayment with no pay in between fails and leaves
   membershipEndAt alone. *)
C6_SecondUndoFails ==
    [][(resp.op = "undo" /\ resp.status = 200 /\ UndoStep)
          => resp'.status # 200 /\ EndAt("m1")' = EndAt("m1")]_vars

(* C8: a successful pay sets membershipEndAt to base + 30 days, the base being
   the current membershipEndAt when the member is active at the payment time
   and the payment's date otherwise. *)
C8_PayExtendsFromBase ==
    [][(PayStep /\ resp'.status = 200)
          => EndAt("m1")' =
                 (IF isMembershipActive(EndAt("m1"), now)
                      THEN EndAt("m1")
                      ELSE toISODate(now)) + MEMBERSHIP_DAYS]_vars

----------------------------------------------------------------------------
(* Claims about the pure rules *)

(* C4: the cashback of an incremental payment is
   max(0, min(5000, floor((priorCashToday + incoming) / 15000) * 2500)
          - priorEarnedToday). *)
C4_EarnedFormula ==
    (probe.fn = "computeEarned" /\ probe.done)
        => probe.out =
               Max(0, Min(5000, ((probe.a + probe.c) \div 15000) * 2500) - probe.b)

(* C7: isActive is true exactly when membershipEndAt exists and now is not
   past the end of that day in Jakarta, that is before the next day's
   midnight there (24 * (end + 1) hours local, 7 hours ahead of UTC). *)
C7_ActiveIffEndOfDayNotPassed ==
    (probe.fn = "isMembershipActive" /\ probe.done)
        => probe.out = (probe.a # Null /\ probe.b < 24 * (probe.a + 1) - 7)

(* the last hour of the last day is active, the hour after is not *)
C7_Witness ==
    /\ probe.fn = "isMembershipActive" /\ probe.done
    /\ probe.a # Null
    /\ probe.b = 24 * (probe.a + 1) - 7 - 1
    /\ probe.out = TRUE

----------------------------------------------------------------------------
(* Claims about purchases *)

DayKeys == {transactions[i].day_key : i \in DOMAIN transactions}

TransactionsOn(memberId, day) ==
    SelectSeq(transactions, LAMBDA r : r.member_id = memberId /\ r.day_key = day)

EarnedOn(memberId, day) == SumOf(TransactionsOn(memberId, day), "cashback_earned")

CashOn(memberId, day) == SumOf(TransactionsOn(memberId, day), "paid_cash")

(* C2: the cashback earned by a member's transactions of one calendar day
   never sums to more than 5,000. *)
C2_DailyCap == \A day \in DayKeys : EarnedOn("m1", day) <= 5000

(* two transactions of one day, worth more than the cap, earn exactly the cap *)
C2_Witness ==
    \E day \in DayKeys :
        /\ Len(TransactionsOn("m1", day)) >= 2
        /\ (CashOn("m1", day) \div 15000) * 2500 > 5000
        /\ EarnedOn("m1", day) = 5000

(* C3: on a day on which the member is active, the cashback earned is
   min(5000, floor(cash paid that day / 15000) * 2500), whatever the order and
   the split of the payments. *)
C3_OrderIndependence ==
    \A day \in DayKeys :
        isMembershipActive(EndAt("m1"), fromISODate(day))
            => EarnedOn("m1", day) = Min(5000, (CashOn("m1", day) \div 15000) * 2500)

EarnRows == {i \in DOMAIN cashback_ledger : cashback_ledger[i].entry_type = "earn"}

LedgerWithout(i) ==
    SubSeq(cashback_ledger, 1, i - 1)
        \o SubSeq(cashback_ledger, i + 1, Len(cashback_ledger))

(* the first date after day that is the first of a month *)
MonthStartAfter(day) ==
    CHOOSE u \in (day + 1)..(day + 31) :
        /\ YMD(u).day = 1
        /\ \A v \in (day + 1)..(u - 1) : YMD(v).day # 1

(* the first and the last hour of each Jakarta day of the five weeks from day *)
AsOfs(day) == {fromISODate(d) + h : d \in day..(day + 35), h \in {0, HoursPerDay - 1}}

(* C9: an earn entry of a transaction of day D has usable_from the first day
   of the month after D; the usable balance leaves it out as of every instant
   before that day and counts it as of every instant from that day on. *)
C9_DelayedActivation ==
    \A i \in EarnRows :
        LET e == cashback_ledger[i]
            D == transactions[e.transaction_id].day_key
        IN  /\ e.usable_from = MonthStartAfter(D)
            /\ \A asOf \in AsOfs(D) :
                  getUsableCashbackBalance(cashback_ledger, e.member_id, asOf)
                      - getUsableCashbackBalance(LedgerWithout(i), e.member_id, asOf)
                    = IF toISODate(asOf) >= e.usable_from THEN e.amount ELSE 0

(* an entry earned in January, counted once February has begun *)
C9_Witness ==
    \E i \in EarnRows :
        /\ cashback_ledger[i].amount > 0
        /\ toISODate(now) >= cashback_ledger[i].usable_from
        /\ getUsableCashbackBalance(cashback_ledger, "m1", now)
               >= cashback_ledger[i].amount

UsableNow(memberId) == getUsableCashbackBalance(cashback_ledger, memberId, now)

SummaryUsable(memberId) == getCashbackSummary(cashback_ledger, memberId).usableCashback

(* C10: a successful transaction that spends x of cashback lowers the usable
   balance by exactly x, as the accessor computes it and as the member's
   cashback summary reports it, as of the same instant. *)
C10_SpendLowersEveryBalance ==
    [][(TrxStep /\ resp'.status = 201 /\ Len(transactions') = Len(transactions) + 1
          /\ transactions'[Len(transactions')].paid_cashback > 0)
          => LET x == transactions'[Len(transactions')].paid_cashback
             IN  /\ UsableNow("m1")' = UsableNow("m1") - x
                 /\ membersRoute = "members.ts"
                        => SummaryUsable("m1")' = SummaryUsable("m1") - x]_vars

(* a step of SpecCashback that handled a POST /transactions: the clock stood
   still; req' is its body *)
TrxHandled == now' = now /\ ticks' = ticks /\ resp'.op = "trx"

(* the member's status at the time of the transaction *)
ActiveAt(memberId, r) == isMembershipActive(EndAt(memberId), nowJkt(r.transactedAt))

NoTrxWrite == UNCHANGED <<transactions, cashback_ledger, members, membership_payments>>

(* C11, as stated: a valid cashback transaction of a member who is inactive at
   that time is always answered with the membership-inactive error and writes
   nothing. *)
C11_InactiveCashbackAlwaysInactiveError ==
    [][(/\ TrxHandled
        /\ ValidRequest(req') /\ req'.paymentType = "cashback"
        /\ ~ActiveAt("m1", req'))
           => /\ resp' = Response("trx", 400, "MembershipInactive")
              /\ NoTrxWrite]_vars

(* C11, amended: such a transaction is always rejected and writes no
   transaction and no ledger entry, whatever the usable balance; the error is
   the membership-inactive one whenever the member's row was read, and
   member-not-found (404) when that read failed. *)
C11_InactiveCashbackRejected ==
    [][(/\ TrxHandled
        /\ ValidRequest(req') /\ req'.paymentType = "cashback"
        /\ ~ActiveAt("m1", req'))
           => /\ NoTrxWrite
              /\ IF faults' = faults
                   THEN resp' = Response("trx", 400, "MembershipInactive")
                   ELSE resp' = Response("trx", 404, "MemberNotFound")]_vars

(* a lapsed member with enough usable cashback was refused *)
C11_Witness ==
    /\ resp = Response("trx", 400, "MembershipInactive")
    /\ req.paymentType = "cashback" /\ req.cashbackToUse > 0
    /\ ~ActiveAt("m1", req)
    /\ UsableNow("m1") >= req.cashbackToUse

UsableAt(memberId, r) ==
    getUsableCashbackBalance(cashback_ledger, memberId, nowJkt(r.transactedAt))

(* C12: a cashback transaction whose cashbackToUse is not positive, exceeds
   the total or exceeds the balance usable at its time is rejected, and the
   member's transactions, ledger entries and balances stay as they were. *)
C12_SpendWithinLimits ==
    [][(/\ TrxHandled
        /\ req'.paymentType = "cashback"
        /\ \/ req'.cashbackToUse <= 0
           \/ req'.cashbackToUse > req'.totalAmount
           \/ req'.cashbackToUse > UsableAt("m1", req'))
           => /\ resp'.status \in {400, 404, 500}
              /\ NoTrxWrite
              /\ UsableNow("m1")' = UsableNow("m1")
              /\ SummaryUsable("m1")' = SummaryUsable("m1")]_vars

(* spending 10,000 with less than that usable, but some, was refused *)
C12_Witness ==
    /\ resp = Response("trx", 400, "InsufficientCashback")
    /\ req.paymentType = "cashback"
    /\ req.cashbackToUse = 10000 /\ req.cashbackToUse <= req.totalAmount
    /\ UsableAt("m1", req) > 0
    /\ UsableAt("m1", req) < req.cashbackToUse

TrxRows == {transactions[i] : i \in DOMAIN transactions}

EarnEntriesOf(t) ==
    {i \in EarnRows : cashback_ledger[i].transaction_id = t.id}

(* membership does not change in SpecCashback: the member's status at the time
   of a recorded transaction *)
WasActive(t) == isMembershipActive(EndAt(t.member_id), t.transacted_at)

(* C13: a transaction of a member inactive at its time, and a transaction
   with no cash part, records cashback_earned = 0 and has no earn entry. *)
C13_EarnsOnlyActiveWithCash ==
    \A t \in TrxRows :
        (~WasActive(t) \/ t.paid_cash = 0)
            => t.cashback_earned = 0 /\ EarnEntriesOf(t) = {}

(* an inactive member paid 45,000 in cash and earned nothing *)
C13_Witness ==
    \E t \in TrxRows :
        ~WasActive(t) /\ t.paid_cash = 45000 /\ t.cashback_earned = 0

(* C14: whatever transactions were posted one after the other, with or without
   a transactedAt of the caller's, the member's usable balance as of the
   current time, not floored, is never negative. *)
C14_TrueBalanceNeverNegative == UsableNow("m1") >= 0

(* the end of membership a payment row stands for *)
EndOfPayment(p) ==
    IF membersRoute = "part_001" THEN p.new_end_at ELSE ToDateColumn(p.period_end)

(* C15: after a pay in which the insert of the payment or the update of the
   member failed, either both the payment history and membership_end_at
   reflect the payment or neither does. *)
C15_PayAtomic ==
    [][(PayStep /\ faults' # faults)
          => \/ /\ PaymentsOf("m1")' = PaymentsOf("m1")
                /\ EndAt("m1")' = EndAt("m1")
             \/ \E p \in PaymentsOf("m1")' \ PaymentsOf("m1") :
                    EndAt("m1")' = EndOfPayment(p)]_vars

(* a pay or an undo of which a store write failed *)
MembershipWriteFailed ==
    /\ faults' # faults
    /\ \/ \E amount \in PayBodies, fail \in {"insert_payment", "update_member"} :
              Pay("m1", amount, fail)
       \/ \E fail \in {"update_member", "delete_payment"} :
              UndoLastPayment("m1", fail)

(* C16: a pay or an undo of which a store write failed does not answer with
   success, and an undo that answers with success has removed the payment it
   undid from the history. *)
C16_NoSilentSuccess ==
    [][/\ MembershipWriteFailed => resp'.status # 200
       /\ (UndoStep /\ resp'.status = 200)
             => \E p \in PaymentsOf("m1") : p \notin PaymentsOf("m1")']_vars

----------------------------------------------------------------------------
(* Claims about requests in flight together *)

(* the membership end a payment row started from *)
PreviousOfPayment(p) ==
    IF membersRoute = "part_001" THEN p.previous_end_at ELSE ToDateColumn(p.period_start)

(* both slots served one request each, of these kinds, and both answered *)
RaceOver(op1, op2) ==
    /\ Started = 2
    /\ \A c \in CallIds : ~InFlight(c)
    /\ \/ calls["c1"].op = op1 /\ calls["c2"].op = op2
       \/ calls["c1"].op = op2 /\ calls["c2"].op = op1

(* C19: after two pays of one member in flight together, the later payment
   starts from the end the earlier one set, and membership_end_at is the
   later payment's end, 30 days after the earlier one's: base + 60 days. *)
C19_ConcurrentPaysChain ==
    RaceOver("pay", "pay")
        => LET first == IF calls["c1"].at < calls["c2"].at THEN "c1" ELSE "c2"
               second == IF first = "c1" THEN "c2" ELSE "c1"
               p == calls[first].row
               q == calls[second].row
           IN  /\ PreviousOfPayment(q) = EndOfPayment(p)
               /\ EndOfPayment(q) = EndOfPayment(p) + MEMBERSHIP_DAYS
               /\ EndAt("m1") = EndOfPayment(q)

(* C20: after an undo and a pay of one member in flight together,
   membership_end_at is the end of the latest payment left, and absent when
   none is left. *)
C20_UndoRacingPay ==
    RaceOver("pay", "undo")
        => LET left == LatestPayments(PaymentsOf("m1"), 1)
           IN  EndAt("m1") = IF Len(left) = 0 THEN Null ELSE EndOfPayment(left[1])

(* C17: with cash transactions of one member in flight together, the
   cashback_earned of the member's transactions of one day never sums to more
   than the daily maximum of 5,000. *)
C17_ConcurrentDailyCap ==
    \A t \in TrxRows : EarnedOn(t.member_id, t.day_key) <= DAILY_MAX

(* C18: with cashback transactions of one member in flight together, the
   spend entries posted never exceed the earn entries usable now. *)
C18_ConcurrentSpendWithinFunds ==
    LET today == toISODate(now)
        earns == SelectSeq(cashback_ledger, LAMBDA r : IsUsableEarn("m1", today, r))
        spends == SelectSeq(cashback_ledger, LAMBDA r : r.entry_type = "spend")
    IN  0 - SumOf(spends, "amount") <= SumOf(earns, "amount")

----------------------------------------------------------------------------
(* Claims about validation, independence and the shape of the streams *)

(* a step that handled one request: the clock stood still *)
Handled(op) == now' = now /\ ticks' = ticks /\ resp'.op = op

ValidationErrors == {"InvalidBody", "InvalidAmount", "InsufficientCashback"}

(* C21: a pay or postTransaction rejected for a validation error (a
   non-positive amount, a malformed body, a cashbackToUse out of range)
   persists nothing: no transaction, ledger entry, membership payment or
   member update; and a purchase whose body breaks the schema is so rejected. *)
C21_ValidationBeforeWrite ==
    [][(\/ Handled("trx") /\ (req'.totalAmount <= 0 \/ req'.cashbackToUse < 0)
        \/ Handled("trx") /\ resp'.err \in ValidationErrors
        \/ Handled("pay") /\ resp'.err \in ValidationErrors)
           => resp'.status = 400 /\ StoreUnchanged]_vars

(* a pay without a positive amount is refused while the member has a payment,
   a purchase and a ledger entry on record, the purchase asked last having been
   refused for its negative cashbackToUse *)
C21_Witness ==
    /\ resp.op = "pay" /\ resp.err = "InvalidBody"
    /\ req.cashbackToUse < 0
    /\ membership_payments # {} /\ transactions # <<>> /\ cashback_ledger # <<>>

OfMember(rows, memberId) == SelectSeq(rows, LAMBDA r : r.member_id = memberId)

(* all the store holds and the services compute for one member *)
MemberView(memberId) ==
    [membership_end_at |-> EndAt(memberId),
     payments |-> PaymentsOf(memberId),
     transactions |-> OfMember(transactions, memberId),
     ledger |-> OfMember(cashback_ledger, memberId),
     usable |-> UsableNow(memberId),
     pending |-> getPendingCashbackBalance(cashback_ledger, memberId, now),
     summary |-> getCashbackSummary(cashback_ledger, memberId),
     cashToday |-> SumOf(TransactionsOfDay(memberId, now), "paid_cash"),
     earnedToday |-> SumOf(TransactionsOfDay(memberId, now), "cashback_earned")]

(* the step handled a request of this member *)
RequestOf(memberId) ==
    \/ Handled("trx") /\ req'.memberId = memberId
    \/ Handled("pay") /\ snap'.member = memberId
    \/ Handled("undo") /\ \E fail \in UndoFails : UndoLastPayment(memberId, fail)

(* C22: a postTransaction, pay or undoLastPayment of one member leaves every
   other member's membershipEndAt, payments, transactions, ledger entries,
   balances and same-day cash and cashback totals as they were. *)
C22_MembersIndependent ==
    [][\A a \in Members, b \in Members :
          (a # b /\ RequestOf(a)) => MemberView(b)' = MemberView(b)]_vars

(* a successful purchase of m1 on a day when m2 has bought for cash and
   earned cashback, or of m2 when m1 has *)
C22_Witness ==
    /\ resp.op = "trx" /\ resp.status = 201
    /\ \E a \in Members, b \in Members :
          /\ a # b /\ req.memberId = a
          /\ transactions[Len(transactions)].member_id = a
          /\ SumOf(TransactionsOfDay(b, now), "cashback_earned") > 0
          /\ PaymentsOf(b) # {}

(* the ledger rows of one type linked to a transaction *)
LinkedEntries(t, type) ==
    {i \in DOMAIN cashback_ledger :
        /\ cashback_ledger[i].transaction_id = t.id
        /\ cashback_ledger[i].entry_type = type}

(* C23: the transactions and the ledger agree in every reachable state, a
   store failure in the middle of postTransaction included: a transaction with
   cashbackEarned > 0 has exactly one linked earn entry of that amount, one
   with paidCashback > 0 exactly one linked spend entry of -paidCashback, and
   there are no other linked entries. *)
C23_LedgerAgreesWithTransactions ==
    /\ \A t \in TrxRows :
          /\ Cardinality(LinkedEntries(t, "earn")) =
                 IF t.cashback_earned > 0 THEN 1 ELSE 0
          /\ \A i \in LinkedEntries(t, "earn") :
                 cashback_ledger[i].amount = t.cashback_earned
          /\ Cardinality(LinkedEntries(t, "spend")) =
                 IF t.paid_cashback > 0 THEN 1 ELSE 0
          /\ \A i \in LinkedEntries(t, "spend") :
                 cashback_ledger[i].amount = 0 - t.paid_cashback
    /\ \A i \in DOMAIN cashback_ledger :
          /\ cashback_ledger[i].entry_type \in {"earn", "spend"}
          /\ \E t \in TrxRows : cashback_ledger[i].transaction_id = t.id

(* the store calls of POST /transactions in the order of the handler's text *)
StepOf(pc) ==
    CASE pc = "select_ledger" -> 1
      [] pc = "select_transactions" -> 2
      [] pc = "insert_transaction" -> 3
      [] pc = "insert_earn" -> 4
      [] pc = "insert_spend" -> 5
      [] OTHER -> 6

(* the request in slot c took a step *)
Stepped(c) ==
    /\ calls[c].op = "trx" /\ InFlight(c)
    /\ calls'[c] # calls[c] /\ calls'[c].n = calls[c].n

Appended(rows, before) == Len(rows) = Len(before) + 1 /\ SubSeq(rows, 1, Len(before)) = before

(* C24: postTransaction checks the balance, computes the earned cashback,
   stores the transaction, posts the earn entry and posts the spend entry, in
   that order; the balance its cashbackToUse was checked against was read
   before the transaction existed, so it holds none of its own earn. *)
C24_StepOrder ==
    [][\A c \in CallIds : Stepped(c) =>
          /\ StepOf(calls'[c].pc) > StepOf(calls[c].pc)
          /\ StepOf(calls[c].pc) > 1 => calls'[c].balance = calls[c].balance
          /\ StepOf(calls[c].pc) > 2 => calls'[c].earned = calls[c].earned
          /\ transactions' # transactions =>
                /\ calls[c].pc = "insert_transaction"
                /\ Appended(transactions', transactions)
                /\ \A i \in DOMAIN cashback_ledger :
                      cashback_ledger[i].transaction_id # calls'[c].row
          /\ cashback_ledger' # cashback_ledger =>
                /\ calls[c].pc \in {"insert_earn", "insert_spend"}
                /\ Appended(cashback_ledger', cashback_ledger)
                /\ \E t \in TrxRows : t.id = calls[c].row
                /\ LET e == cashback_ledger'[Len(cashback_ledger')]
                   IN  /\ e.transaction_id = calls[c].row
                       /\ e.entry_type =
                              IF calls[c].pc = "insert_earn" THEN "earn" ELSE "spend"]_vars

(* a purchase paid partly with cashback that also earned went through all the
   five steps *)
C24_Witness ==
    \E c \in CallIds :
        /\ calls[c].op = "trx" /\ calls[c].pc = "done" /\ calls[c].status = 201
        /\ calls[c].body.paymentType = "cashback"
        /\ calls[c].earned > 0 /\ calls[c].balance >= calls[c].body.cashbackToUse
        /\ Cardinality(LinkedEntries(transactions[calls[c].row], "earn")) = 1
        /\ Cardinality(LinkedEntries(transactions[calls[c].row], "spend")) = 1

LastTransaction == transactions[Len(transactions)]

(* C25: every stored transaction has paid_cash + paid_cashback = total_amount
   with neither negative, and cashback_spent = paid_cashback; a cash purchase
   is stored with paid_cash = totalAmount and paid_cashback = 0 whatever
   cashbackToUse its body carried, a cashback purchase with paid_cashback =
   cashbackToUse. *)
C25_AmountsSplit ==
    [][/\ \A t \in TrxRows' :
             /\ t.paid_cash + t.paid_cashback = t.total_amount
             /\ t.paid_cash >= 0 /\ t.paid_cashback >= 0
             /\ t.cashback_spent = t.paid_cashback
       /\ (Handled("trx") /\ transactions' # transactions) =>
             /\ LastTransaction'.total_amount = req'.totalAmount
             /\ LastTransaction'.paid_cashback =
                    IF req'.paymentType = "cash" THEN 0 ELSE req'.cashbackToUse
             /\ LastTransaction'.paid_cash =
                    IF req'.paymentType = "cash"
                        THEN req'.totalAmount
                        ELSE req'.totalAmount - req'.cashbackToUse]_vars

(* a purchase paid with cashback alone is stored after a cash purchase whose
   body carried a cashbackToUse, as every cash body at the counter does *)
C25_Witness ==
    /\ req.paymentType = "cashback" /\ resp.op = "trx" /\ resp.status = 201
    /\ LastTransaction.paid_cashback = req.cashbackToUse
    /\ LastTransaction.paid_cash = 0
    /\ \E t \in TrxRows : t.paid_cashback = 0 /\ t.paid_cash = 45000

(* the first and the last hour of the Jakarta days around a date *)
AsOfsAround(date) ==
    {fromISODate(d) + h : d \in (date - 1)..(date + 1), h \in {0, HoursPerDay - 1}}

(* what one ledger row adds to the usable and to the pending balance *)
CountedUsable(i, memberId, asOf) ==
    getUsableCashbackBalance(cashback_ledger, memberId, asOf)
        - getUsableCashbackBalance(LedgerWithout(i), memberId, asOf)

CountedPending(i, memberId, asOf) ==
    getPendingCashbackBalance(cashback_ledger, memberId, asOf)
        - getPendingCashbackBalance(LedgerWithout(i), memberId, asOf)

CountedInSummary(i, memberId) ==
    LET with == getCashbackSummary(cashback_ledger, memberId)
        without == getCashbackSummary(LedgerWithout(i), memberId)
    IN  [usableCashback |-> with.usableCashback - without.usableCashback,
         pendingCashback |-> with.pendingCashback - without.pendingCashback]

(* C26: as of every date an earn entry counts in exactly one of the usable and
   the pending balance: in the usable one when usable_from <= asOf, the day
   usable_from itself included, in the pending one when usable_from > asOf. *)
C26_UsableOrPending ==
    \A i \in EarnRows :
        LET e == cashback_ledger[i]
        IN  /\ \A asOf \in AsOfsAround(e.usable_from) :
                  /\ CountedUsable(i, e.member_id, asOf) =
                         IF e.usable_from <= toISODate(asOf) THEN e.amount ELSE 0
                  /\ CountedPending(i, e.member_id, asOf) =
                         IF e.usable_from > toISODate(asOf) THEN e.amount ELSE 0
            /\ CountedInSummary(i, e.member_id) =
                   IF e.usable_from <= toISODate(now)
                       THEN [usableCashback |-> e.amount, pendingCashback |-> 0]
                       ELSE [usableCashback |-> 0, pendingCashback |-> e.amount]

(* today is the usable_from of an entry: it is spendable and not pending *)
C26_Witness ==
    \E i \in EarnRows :
        /\ cashback_ledger[i].amount > 0
        /\ cashback_ledger[i].usable_from = toISODate(now)
        /\ CountedUsable(i, "m1", now) = cashback_ledger[i].amount
        /\ CountedPending(i, "m1", now) = 0

(* C27: the usable cashback that the member detail returns is never negative,
   in any reachable state of the ledger. *)
C27_DisplayedUsableNotNegative == GetDetail("m1").usableCashback >= 0

(* C28: at one instant the isActive that the list and the update answer for a
   member equals the isActive that the detail answers, which is
   isMembershipActive of the member's membership_end_at at that instant. *)
C28_SameZoneEverywhere ==
    \A c \in CallIds, d \in CallIds :
        (calls[c].op \in {"list", "update"} /\ calls[d].op = "detail")
            => /\ calls[d].active = isMembershipActive(EndAt("m1"), now)
               /\ calls[c].active = calls[d].active

(* a membership payment, a transaction or a ledger entry names the member *)
Referenced(memberId) ==
    \/ PaymentsOf(memberId) # {}
    \/ \E t \in TrxRows : t.member_id = memberId
    \/ \E i \in DOMAIN cashback_ledger : cashback_ledger[i].member_id = memberId

(* C29: the record of a member that membership payments, transactions or
   ledger entries refer to is never removed from members: deleting such a
   member archives it. *)
C29_ReferencedNeverRemoved ==
    \A m \in Members : Referenced(m) => Exists(m)

(* every row of before is still there, in its place and as it was *)
Extends(rows, before) ==
    Len(rows) >= Len(before) /\ SubSeq(rows, 1, Len(before)) = before

(* C30: transactions and ledger entries are only ever appended: no step
   changes or removes one that exists; pay and undoLastPayment leave both
   streams as they were, and postTransaction leaves membership_end_at and the
   membership payments as they were. *)
C30_AppendOnly ==
    [][/\ Extends(transactions', transactions)
       /\ Extends(cashback_ledger', cashback_ledger)
       /\ (Handled("pay") \/ Handled("undo"))
             => UNCHANGED <<transactions, cashback_ledger>>
       /\ Handled("trx") => UNCHANGED <<members, membership_payments>>]_vars

(* a payment is undone with two transactions, an earn and a spend entry on
   record *)
C30_Witness ==
    /\ resp.op = "undo" /\ resp.status = 200
    /\ Len(transactions) = 2
    /\ \E i, j \in DOMAIN cashback_ledger :
          /\ cashback_ledger[i].entry_type = "earn"
          /\ cashback_ledger[j].entry_type = "spend"

----------------------------------------------------------------------------
(* Claims about the payment history, the balances and the order of writes *)

(* the member's payments, latest first *)
History(memberId) ==
    LatestPayments(PaymentsOf(memberId), Cardinality(PaymentsOf(memberId)))

(* membership_end_at is the end of the latest payment, absent without one;
   every payment starts from the end of the payment before it, the first from
   an absent one *)
Chained(memberId) ==
    LET ps == History(memberId)
    IN  /\ EndAt(memberId) = IF Len(ps) = 0 THEN Null ELSE EndOfPayment(ps[1])
        /\ \A i \in 1..Len(ps) :
              PreviousOfPayment(ps[i]) =
                  IF i = Len(ps) THEN Null ELSE EndOfPayment(ps[i + 1])

(* C31: starting from no payments, every pay and undoLastPayment answered with
   success leaves membership_end_at equal to the end of the latest remaining
   payment (absent when none remains) and every remaining payment starting
   from the end of the payment before it (absent for the first). *)
C31_HistoryChained ==
    [][(Chained("m1") /\ (PayStep \/ UndoStep) /\ resp'.status = 200)
          => Chained("m1")']_vars

(* C32: after every successful pay the member is active as of the payment
   time, and membership_end_at is later than the date of the payment and later
   than the membership_end_at of before, if there was one: pay never shortens
   a membership. *)
C32_PayNeverShortens ==
    [][(PayStep /\ resp'.status = 200)
          => /\ isMembershipActive(EndAt("m1")', now)
             /\ EndAt("m1")' > toISODate(now)
             /\ EndAt("m1") # Null => EndAt("m1")' > EndAt("m1")]_vars

(* an active member has paid again: the payment on record before it ends
   later than the day of the payment *)
C32_Witness ==
    /\ resp.op = "pay" /\ resp.status = 200
    /\ Len(History("m1")) = 2
    /\ EndOfPayment(History("m1")[2]) > toISODate(now)
    /\ EndAt("m1") > EndOfPayment(History("m1")[2])

(* the sum of the amounts of all ledger entries of a member, as stored: earn
   positive, spend negative *)
LedgerTotal(memberId) == SumOf(OfMember(cashback_ledger, memberId), "amount")

(* C33: as of every date the usable balance, not floored, plus the pending
   balance is the sum of all the member's ledger entry amounts, for the two
   balance functions of the service and for the member's cashback summary. *)
C33_BalanceConserved ==
    /\ \A asOf \in AsOfs(toISODate(StartInstant)) :
          getUsableCashbackBalance(cashback_ledger, "m1", asOf)
              + getPendingCashbackBalance(cashback_ledger, "m1", asOf)
            = LedgerTotal("m1")
    /\ membersRoute = "members.ts" =>
          LET summary == getCashbackSummary(cashback_ledger, "m1")
          IN  summary.usableCashback + summary.pendingCashback = LedgerTotal("m1")

(* C34: the cashback of a transaction is the rule applied to the cash paid and
   the cashback earned by the member's earlier transactions of the same
   calendar day, and to nothing of any other day: a member who reached the
   cap on one day earns up to 5,000 again on another. *)
C34_CapPerDay ==
    [][(Handled("trx") /\ transactions' # transactions) =>
          LET t == LastTransaction'
              cash == CashOn(t.member_id, t.day_key)
              earned == EarnedOn(t.member_id, t.day_key)
          IN  t.cashback_earned =
                  IF WasActive(t) /\ t.paid_cash > 0
                      THEN Earned(cashbackService, cash, earned, t.paid_cash)
                      ELSE 0]_vars

(* the cap reached on one day and reached again on the next *)
C34_Witness ==
    \E d, e \in DayKeys :
        /\ d # e
        /\ EarnedOn("m1", d) = DAILY_MAX
        /\ EarnedOn("m1", e) = DAILY_MAX


(* a write of the named operation failed at the named point *)
PayInsertFailed ==
    /\ faults' # faults
    /\ \E amount \in PayBodies : Pay("m1", amount, "insert_payment")

UndoUpdateFailed == faults' # faults /\ UndoLastPayment("m1", "update_member")

TrxInsertFailed ==
    /\ faults' # faults
    /\ \E totalAmount \in TotalAmounts, paymentType \in PaymentTypes,
          cashbackToUse \in CashbackToUse :
           PostTransaction("m1", totalAmount, paymentType, cashbackToUse, Null,
                           "insert_transaction")

(* C35: when the insert of the payment fails in pay, when the update of the
   member fails in undoLastPayment, or when the insert of the transaction
   fails in postTransaction, the stored state is the state before the
   operation and the caller gets an error. *)
C35_FailedWriteLeavesStore ==
    [][(PayInsertFailed \/ UndoUpdateFailed \/ TrxInsertFailed)
          => StoreUnchanged /\ resp'.status >= 400]_vars

(* the three cases of C35 one by one *)
C35_PayCase == [][PayInsertFailed => StoreUnchanged /\ resp'.status >= 400]_vars

C35_UndoCase == [][UndoUpdateFailed => StoreUnchanged /\ resp'.status >= 400]_vars

C35_TrxCase == [][TrxInsertFailed => StoreUnchanged /\ resp'.status >= 400]_vars

(* the undo of part_001, which updates the member before it deletes *)
C35_UndoCaseA ==
    [][(UndoUpdateFailed /\ membersRoute = "part_001")
          => StoreUnchanged /\ resp'.status >= 400]_vars

====
